---- MODULE Spec2Model ----
(***************************************************************************)
(* Model of the med-spa appointment backend: the JSON entity store          *)
(* (src/server.py), the agent tools create_appointment and                  *)
(* update_appointment_status (src/server.py) and the HTTP handlers          *)
(* check_availability, book_appointment, get_appointment and                *)
(* cancel_appointment (src/api_server.py).                                  *)
(*                                                                          *)
(* Text that the code parses, formats or searches (service names, dates,    *)
(* times, working hours) is a sequence of one-character strings, so that    *)
(* str.lower, the `in` substring test, str.split, int, strptime and         *)
(* strftime are computed character by character. Identifiers that are only  *)
(* compared for equality (SVC001, STF002, phone numbers) are plain strings. *)
(* A datetime on the dummy day 1900-01-01 that strptime("%H:%M") yields is  *)
(* the number of minutes since that day's midnight. Prices are whole        *)
(* dollars. A JSON object (an insertion-ordered dict keyed by id) is a      *)
(* sequence of records, each holding its key in the field id.               *)
(***************************************************************************)
EXTENDS Integers, Sequences, FiniteSets, TLC

\* ------------------------------------------------------------------------
\* Bounds of the model
\* ------------------------------------------------------------------------

\* No creation of an appointment is explored once this many are stored.
MaxAppointments == 2

\* ------------------------------------------------------------------------
\* Python values and string operations
\* ------------------------------------------------------------------------

\* Python's None for an Optional[str] argument or field.
None == "<None>"

\* `not x` for an Optional[str]: None and the empty string are falsy.
Falsy(x) == x = None \/ x = ""

UpperCase == <<"A", "B", "C", "D", "E", "F", "G", "H", "I", "J", "K", "L", "M",
               "N", "O", "P", "Q", "R", "S", "T", "U", "V", "W", "X", "Y", "Z">>

LowerCase == <<"a", "b", "c", "d", "e", "f", "g", "h", "i", "j", "k", "l", "m",
               "n", "o", "p", "q", "r", "s", "t", "u", "v", "w", "x", "y", "z">>

DigitChars == <<"0", "1", "2", "3", "4", "5", "6", "7", "8", "9">>

\* The lower-case letter of each upper-case letter.
ToLower ==
    [c \in {UpperCase[i] : i \in 1..26} |->
         LowerCase[CHOOSE i \in 1..26 : UpperCase[i] = c]]

\* str.lower() on one character.
LowerChar(c) == IF c \in DOMAIN ToLower THEN ToLower[c] ELSE c

\* str.lower()
RECURSIVE lower(_)
lower(s) ==
    IF s = <<>> THEN <<>> ELSE <<LowerChar(Head(s))>> \o lower(Tail(s))

\* Python's `sub in s` on strings: sub occurs in s as a contiguous run.
\* The empty string occurs in every string.
In(sub, s) ==
    \E i \in 1..(Len(s) - Len(sub) + 1) : SubSeq(s, i, i + Len(sub) - 1) = sub

\* The position of the first occurrence of the character c in s, 0 if none.
Find(s, c) ==
    IF \E i \in 1..Len(s) : s[i] = c
    THEN CHOOSE i \in 1..Len(s) : s[i] = c /\ \A j \in 1..(i - 1) : s[j] # c
    ELSE 0

\* str.split(c)
RECURSIVE split(_, _)
split(s, c) ==
    LET i == Find(s, c)
    IN  IF i = 0 THEN <<s>>
        ELSE <<SubSeq(s, 1, i - 1)>> \o split(SubSeq(s, i + 1, Len(s)), c)

\* The value of each decimal digit.
DigitValue ==
    [c \in {DigitChars[i] : i \in 1..10} |->
         (CHOOSE i \in 1..10 : DigitChars[i] = c) - 1]

IsDigit(c) == c \in DOMAIN DigitValue

AllDigits(s) == \A i \in 1..Len(s) : IsDigit(s[i])

DigitVal(c) == DigitValue[c]

\* The value of a non-empty run of decimal digits.
RECURSIVE DecVal(_)
DecVal(s) ==
    IF s = <<>> THEN 0
    ELSE 10 * DecVal(SubSeq(s, 1, Len(s) - 1)) + DigitVal(s[Len(s)])

\* The outcome of a conversion that raises ValueError.
ValueError == -1

\* int(s) for the text of a non-negative number; ValueError otherwise.
int(s) == IF Len(s) > 0 /\ AllDigits(s) THEN DecVal(s) ELSE ValueError

\* The decimal digits of n >= 0, without padding.
RECURSIVE DecStr(_)
DecStr(n) ==
    IF n < 10 THEN <<DigitChars[n + 1]>>
    ELSE DecStr(n \div 10) \o <<DigitChars[(n % 10) + 1]>>

\* f"{n:02d}"
Fmt02d(n) == IF n < 10 THEN <<"0">> \o DecStr(n) ELSE DecStr(n)

\* f"{n:04d}" appended to an id prefix: f"APT{n:04d}", f"CL{n:04d}".
Fmt04d(n) ==
    IF n < 10 THEN "000" \o ToString(n)
    ELSE IF n < 100 THEN "00" \o ToString(n)
    ELSE IF n < 1000 THEN "0" \o ToString(n)
    ELSE ToString(n)

\* ------------------------------------------------------------------------
\* datetime.strptime / strftime
\* ------------------------------------------------------------------------

\* datetime.strptime(s, "%H:%M"): the minutes since midnight of the dummy
\* day, or ValueError. %H takes one or two digits up to 23, %M one or two
\* digits up to 59, and no text may remain.
strptime_HM(s) ==
    LET p == split(s, ":")
    IN  IF /\ Len(p) = 2
           /\ Len(p[1]) \in {1, 2} /\ AllDigits(p[1]) /\ DecVal(p[1]) <= 23
           /\ Len(p[2]) \in {1, 2} /\ AllDigits(p[2]) /\ DecVal(p[2]) <= 59
        THEN DecVal(p[1]) * 60 + DecVal(p[2])
        ELSE ValueError

\* dt.strftime("%H:%M") of a datetime on the dummy day.
strftime_HM(t) == Fmt02d((t \div 60) % 24) \o <<":">> \o Fmt02d(t % 60)

IsLeap(y) == (y % 4 = 0) /\ ((y % 100 # 0) \/ (y % 400 = 0))

DaysInMonth(y, m) ==
    IF m = 2 THEN (IF IsLeap(y) THEN 29 ELSE 28)
    ELSE IF m \in {4, 6, 9, 11} THEN 30 ELSE 31

\* The days of year y before the first of month m.
RECURSIVE DaysBeforeMonth(_, _)
DaysBeforeMonth(y, m) ==
    IF m = 1 THEN 0 ELSE DaysBeforeMonth(y, m - 1) + DaysInMonth(y, m - 1)

\* date.toordinal(): 0001-01-01 is day 1.
toordinal(y, m, d) ==
    LET p == y - 1
    IN  p * 365 + (p \div 4) - (p \div 100) + (p \div 400)
          + DaysBeforeMonth(y, m) + d

\* date.weekday(): Monday is 0.
weekday(y, m, d) == (toordinal(y, m, d) + 6) % 7

DayNames == <<"Monday", "Tuesday", "Wednesday", "Thursday", "Friday",
              "Saturday", "Sunday">>

NoDate == [ok |-> FALSE, year |-> 0, month |-> 0, day |-> 0]

\* datetime.strptime(s, "%Y-%m-%d"): %Y takes four digits, %m one or two
\* digits from 1 to 12, %d one or two digits from 1 to 31, no text may
\* remain, and the day must exist in the calendar. ok = FALSE is ValueError.
strptime_Ymd(s) ==
    LET p == split(s, "-")
    IN  IF /\ Len(p) = 3
           /\ Len(p[1]) = 4 /\ AllDigits(p[1]) /\ DecVal(p[1]) >= 1
           /\ Len(p[2]) \in {1, 2} /\ AllDigits(p[2])
           /\ DecVal(p[2]) \in 1..12
           /\ Len(p[3]) \in {1, 2} /\ AllDigits(p[3])
           /\ DecVal(p[3]) \in 1..DaysInMonth(DecVal(p[1]), DecVal(p[2]))
        THEN [ok |-> TRUE, year |-> DecVal(p[1]), month |-> DecVal(p[2]),
              day |-> DecVal(p[3])]
        ELSE NoDate

\* date_obj.strftime("%A")
strftime_A(dt) == DayNames[weekday(dt.year, dt.month, dt.day) + 1]

\* ------------------------------------------------------------------------
\* The entity store: an ordered dict as a sequence of records keyed by id
\* ------------------------------------------------------------------------

Keys(d) == {d[i].id : i \in 1..Len(d)}

\* d[k] for a key of d.
Get(d, k) == d[CHOOSE i \in 1..Len(d) : d[i].id = k]

\* d[k] = rec: an existing key keeps its place, a new key goes last.
Put(d, k, rec) ==
    IF k \in Keys(d)
    THEN [d EXCEPT ![CHOOSE i \in 1..Len(d) : d[i].id = k] = rec]
    ELSE Append(d, rec)

\* ------------------------------------------------------------------------
\* Seed data written by initialize_default_data
\* ------------------------------------------------------------------------

default_services == <<
    [id |-> "SVC001",
     name |-> <<"B", "o", "t", "o", "x", " ",
                "T", "r", "e", "a", "t", "m", "e", "n", "t">>,
     category |-> "Injectables", duration_minutes |-> 30, price |-> 400,
     description |-> "Wrinkle reduction with Botox injections"],
    [id |-> "SVC002",
     name |-> <<"D", "e", "r", "m", "a", "l", " ",
                "F", "i", "l", "l", "e", "r", "s">>,
     category |-> "Injectables", duration_minutes |-> 45, price |-> 650,
     description |-> "Volume restoration with hyaluronic acid fillers"],
    [id |-> "SVC003",
     name |-> <<"H", "y", "d", "r", "a", "f", "a", "c", "i", "a", "l">>,
     category |-> "Facials", duration_minutes |-> 60, price |-> 250,
     description |-> "Deep cleansing and hydration facial treatment"],
    [id |-> "SVC004",
     name |-> <<"L", "a", "s", "e", "r", " ", "H", "a", "i", "r", " ",
                "R", "e", "m", "o", "v", "a", "l">>,
     category |-> "Laser Treatments", duration_minutes |-> 30, price |-> 300,
     description |-> "Permanent hair reduction using laser technology"],
    [id |-> "SVC005",
     name |-> <<"C", "h", "e", "m", "i", "c", "a", "l", " ",
                "P", "e", "e", "l">>,
     category |-> "Skin Treatments", duration_minutes |-> 45, price |-> 200,
     description |->
         "Skin resurfacing treatment for improved texture and tone"],
    [id |-> "SVC006",
     name |-> <<"M", "i", "c", "r", "o", "n", "e", "e", "d", "l", "i", "n", "g">>,
     category |-> "Skin Treatments", duration_minutes |-> 60, price |-> 350,
     description |-> "Collagen induction therapy for skin rejuvenation"],
    [id |-> "SVC007",
     name |-> <<"C", "o", "o", "l", "S", "c", "u", "l", "p", "t", "i", "n", "g">>,
     category |-> "Body Contouring", duration_minutes |-> 90, price |-> 800,
     description |-> "Non-invasive fat reduction treatment"] >>

default_staff == <<
    [id |-> "STF001", name |-> "Dr. Maria Rodriguez",
     role |-> "Medical Director",
     specialties |-> {"Injectables", "Laser Treatments"},
     available_days |->
         {"Monday", "Tuesday", "Wednesday", "Thursday", "Friday"},
     hours |-> [start |-> <<"0", "9", ":", "0", "0">>,
                end |-> <<"1", "7", ":", "0", "0">>]],
    [id |-> "STF002", name |-> "Sarah Johnson",
     role |-> "Licensed Aesthetician",
     specialties |-> {"Facials", "Skin Treatments"},
     available_days |->
         {"Tuesday", "Wednesday", "Thursday", "Friday", "Saturday"},
     hours |-> [start |-> <<"1", "0", ":", "0", "0">>,
                end |-> <<"1", "8", ":", "0", "0">>]],
    [id |-> "STF003", name |-> "Jennifer Martinez",
     role |-> "Nurse Practitioner",
     specialties |-> {"Injectables", "Body Contouring"},
     available_days |-> {"Monday", "Wednesday", "Friday", "Saturday"},
     hours |-> [start |-> <<"0", "9", ":", "0", "0">>,
                end |-> <<"1", "7", ":", "0", "0">>]] >>

\* A staff file that exists before the first start is kept as it is
\* (initialize_default_data writes the seed only `if not
\* STAFF_FILE.exists()`). This one holds a single aesthetician with a short
\* window that starts on the half hour; nobody performs Injectables.
existing_staff == <<
    [id |-> "STF002", name |-> "Sarah Johnson",
     role |-> "Licensed Aesthetician",
     specialties |-> {"Facials", "Skin Treatments"},
     available_days |-> {"Tuesday", "Thursday"},
     hours |-> [start |-> <<"0", "9", ":", "3", "0">>,
                end |-> <<"1", "1", ":", "0", "0">>]] >>

\* The staff collections the program starts with.
StaffFiles == {default_staff, existing_staff}

\* ------------------------------------------------------------------------
\* State
\* ------------------------------------------------------------------------

\* data/services.json: no handler writes it after the seed.
services == default_services

VARIABLES
    staff,          \* data/staff.json
    clients,        \* data/clients.json
    appointments,   \* data/appointments.json
    response,       \* what the last call returned or raised
    inflight        \* the requests that worker threads are handling

vars == <<staff, clients, appointments, response, inflight>>

\* The parts of a response; a call fills in the ones it produces.
\*   op              the handler or tool that was called
\*   raised          "" or the exception that left the handler
\*   success         "True" / "False", or None when the result has no flag
\*   appointment_id  the id in the result, None when it has none
\*   message         the message or text returned
\*   date, day_of_week, available_slots   the availability result
NoResponse ==
    [op |-> "", raised |-> "", success |-> None, appointment_id |-> None,
     message |-> "", date |-> <<>>, day_of_week |-> "",
     available_slots |-> <<>>]

\* The worker threads that handle HTTP requests at the same time.
Procs == {1, 2}

\* No request.
NoBooking ==
    [service_name |-> <<>>, date |-> <<>>, time |-> <<>>, client_name |-> "",
     client_phone |-> "", client_email |-> "", staff_id |-> None]

\* What a worker thread of the HTTP server (the handlers are plain def, so
\* each request runs on a thread of the pool) holds of its request:
\*   pc              the next access to a file, "idle" or "done"
\*   op              the handler
\*   booking         the body of a POST /book
\*   appointment_id  the id in the path of a cancellation
\*   clients, appointments   the dicts as load_data returned them
\*   response        what the handler returned or raised, once done
\*   served          the requests the thread has taken so far
Idle ==
    [pc |-> "idle", op |-> "", booking |-> NoBooking, appointment_id |-> None,
     clients |-> <<>>, appointments |-> <<>>, response |-> NoResponse,
     served |-> 0]

Init ==
    /\ staff \in StaffFiles
    /\ clients = <<>>
    /\ appointments = <<>>
    /\ response = NoResponse
    /\ inflight = [p \in Procs |-> Idle]

\* ------------------------------------------------------------------------
\* GET /availability/{date}  (api_server.check_availability)
\* ------------------------------------------------------------------------

\* The step between two candidate slots.
SlotMinutes == 30

\* The number of slots the HTTP result keeps.
SlotCap == 10

\* is_available with the test for the start of an appointment only.
RECURSIVE is_available_start_only(_, _)
is_available_start_only(current_time, staff_appointments) ==
    IF staff_appointments = <<>> THEN "available"
    ELSE LET apt == Head(staff_appointments)
             apt_start == strptime_HM(apt.time)
         IN  IF apt_start = ValueError THEN "ValueError"
             ELSE IF apt_start = current_time
                  THEN "busy"
                  ELSE is_available_start_only(current_time,
                                               Tail(staff_appointments))

\* The inner loop over staff_appointments for one candidate slot:
\* "busy" when its start lies in [apt_start, apt_end) of an appointment,
\* "ValueError" when an appointment's time does not parse before that,
\* "available" otherwise.
RECURSIVE is_available(_, _)
is_available(current_time, staff_appointments) ==
    IF staff_appointments = <<>> THEN "available"
    ELSE LET apt == Head(staff_appointments)
             apt_start == strptime_HM(apt.time)
             apt_end == apt_start + apt.duration_minutes
         IN  IF apt_start = ValueError THEN "ValueError"
             ELSE IF apt_start <= current_time /\ current_time < apt_end
                  THEN "busy"
                  ELSE is_available(current_time, Tail(staff_appointments))

\* slot_walk with the loop test current_time <= end_time.
RECURSIVE slot_walk_through_end(_, _, _, _)
slot_walk_through_end(current_time, end_time, staff_member, staff_appointments) ==
    IF ~(current_time <= end_time) THEN [raised |-> "", slots |-> <<>>]
    ELSE LET avail == is_available(current_time, staff_appointments)
             rest == slot_walk_through_end(current_time + SlotMinutes,
                                           end_time, staff_member,
                                           staff_appointments)
             slot == [time |-> strftime_HM(current_time),
                      staff_id |-> staff_member.id,
                      staff_name |-> staff_member.name]
         IN  IF avail = "ValueError"
             THEN [raised |-> "ValueError", slots |-> <<>>]
             ELSE IF rest.raised # "" THEN rest
             ELSE [raised |-> "",
                   slots |-> (IF avail = "available" THEN <<slot>> ELSE <<>>)
                                \o rest.slots]

\* The while loop from current_time to end_time for one staff member.
RECURSIVE slot_walk(_, _, _, _)
slot_walk(current_time, end_time, staff_member, staff_appointments) ==
    IF ~(current_time < end_time) THEN [raised |-> "", slots |-> <<>>]
    ELSE LET avail == is_available(current_time, staff_appointments)
             rest == slot_walk(current_time + SlotMinutes, end_time,
                               staff_member, staff_appointments)
             slot == [time |-> strftime_HM(current_time),
                      staff_id |-> staff_member.id,
                      staff_name |-> staff_member.name]
         IN  IF avail = "ValueError"
             THEN [raised |-> "ValueError", slots |-> <<>>]
             ELSE IF rest.raised # "" THEN rest
             ELSE [raised |-> "",
                   slots |-> (IF avail = "available" THEN <<slot>> ELSE <<>>)
                                \o rest.slots]

\* staff_appointments_of without the test of the status.
staff_appointments_any_status(apts, staff_id, date) ==
    SelectSeq(apts, LAMBDA a : /\ a.staff_id = staff_id
                               /\ a.date = date)

\* The appointments of one staff member on the date that are scheduled;
\* the date is compared as text.
staff_appointments_of(apts, staff_id, date) ==
    SelectSeq(apts, LAMBDA a : /\ a.staff_id = staff_id
                               /\ a.date = date
                               /\ a.status = "scheduled")

\* The body of the loop over available_staff for one staff member.
staff_slots(staff_member, apts, date) ==
    LET h_start == split(staff_member.hours.start, ":")
        h_end == split(staff_member.hours.end, ":")
    IN  IF \/ Len(h_start) # 2 \/ Len(h_end) # 2
           \/ \E i \in 1..2 : int(h_start[i]) = ValueError
           \/ \E i \in 1..2 : int(h_end[i]) = ValueError
        THEN [raised |-> "ValueError", slots |-> <<>>]
        ELSE LET current_time ==
                     strptime_HM(Fmt02d(int(h_start[1])) \o <<":">>
                                   \o Fmt02d(int(h_start[2])))
                 end_time ==
                     strptime_HM(Fmt02d(int(h_end[1])) \o <<":">>
                                   \o Fmt02d(int(h_end[2])))
             IN  IF current_time = ValueError \/ end_time = ValueError
                 THEN [raised |-> "ValueError", slots |-> <<>>]
                 ELSE slot_walk(current_time, end_time, staff_member,
                                staff_appointments_of(apts, staff_member.id,
                                                      date))

\* The loop over available_staff, in the order of the staff collection.
RECURSIVE collect_slots(_, _, _)
collect_slots(available_staff, apts, date) ==
    IF available_staff = <<>> THEN [raised |-> "", slots |-> <<>>]
    ELSE LET first == staff_slots(Head(available_staff), apts, date)
             rest == collect_slots(Tail(available_staff), apts, date)
         IN  IF first.raised # "" THEN first
             ELSE IF rest.raised # "" THEN rest
             ELSE [raised |-> "", slots |-> first.slots \o rest.slots]

\* The staff whose available_days hold the day name.
available_staff_on(stf, day_name) ==
    SelectSeq(stf, LAMBDA s : day_name \in s.available_days)

\* The list available_slots before the cap, for a date that parses.
available_slots(date, stf, apts) ==
    collect_slots(available_staff_on(stf, strftime_A(strptime_Ymd(date))),
                  apts, date)

\* lst[-n:]
Take_last(lst, n) ==
    SubSeq(lst, IF Len(lst) < n THEN 1 ELSE Len(lst) - n + 1, Len(lst))

\* lst[:n]
Take(lst, n) == SubSeq(lst, 1, IF Len(lst) < n THEN Len(lst) ELSE n)

\* The whole handler: what it returns or raises.
check_availability_result(date, stf, apts) ==
    LET date_obj == strptime_Ymd(date)
    IN  IF ~date_obj.ok
        THEN [NoResponse EXCEPT !.op = "check_availability",
                                !.raised = "HTTPException 400",
                                !.message = "Invalid date format. Use YYYY-MM-DD",
                                !.date = date]
        ELSE LET found == available_slots(date, stf, apts)
             IN  IF found.raised # ""
                 THEN [NoResponse EXCEPT !.op = "check_availability",
                                         !.raised = found.raised,
                                         !.date = date]
                 ELSE [NoResponse EXCEPT
                           !.op = "check_availability",
                           !.date = date,
                           !.day_of_week = strftime_A(date_obj),
                           !.available_slots = Take(found.slots, SlotCap)]

\* The dates asked about: a Tuesday, the same Tuesday written without
\* leading zeros, and a day that does not exist.
QueryDates ==
    { <<"2", "0", "2", "4", "-", "0", "1", "-", "0", "9">>,
      <<"2", "0", "2", "4", "-", "1", "-", "9">>,
      <<"2", "0", "2", "4", "-", "0", "2", "-", "3", "0">> }

check_availability ==
    \E date \in QueryDates :
        /\ response' = check_availability_result(date, staff, appointments)
        /\ UNCHANGED <<staff, clients, appointments, inflight>>

\* ------------------------------------------------------------------------
\* POST /book  (api_server.book_appointment)
\* ------------------------------------------------------------------------

\* find_service that keeps the last service that matches.
find_service_last(svcs, service_name) ==
    LET wanted == lower(service_name)
        hits == {i \in 1..Len(svcs) : In(wanted, lower(svcs[i].name))}
    IN  IF hits = {} THEN 0
        ELSE CHOOSE i \in hits : \A j \in hits : i >= j

\* find_service that falls back on the first service.
find_service_or_first(svcs, service_name) ==
    LET wanted == lower(service_name)
        hits == {i \in 1..Len(svcs) : In(wanted, lower(svcs[i].name))}
    IN  IF hits = {} THEN 1
        ELSE CHOOSE i \in hits : \A j \in hits : i <= j

\* The loop that finds the service by name: the position of the first
\* service whose lower-cased name holds the lower-cased request text, 0 if
\* there is none.
find_service(svcs, service_name) ==
    LET wanted == lower(service_name)
        hits == {i \in 1..Len(svcs) : In(wanted, lower(svcs[i].name))}
    IN  IF hits = {} THEN 0
        ELSE CHOOSE i \in hits : \A j \in hits : i <= j

\* find_client that looks the phone up among the keys of the collection.
find_client_by_key(cls, client_phone) ==
    IF client_phone \in Keys(cls) THEN client_phone ELSE None

\* The loop that finds the client by phone: the id of the first client
\* with exactly that phone, None if there is none.
find_client(cls, client_phone) ==
    LET hits == {i \in 1..Len(cls) : cls[i].phone = client_phone}
    IN  IF hits = {} THEN None
        ELSE cls[CHOOSE i \in hits : \A j \in hits : i <= j].id

\* new_client with the first visit counted at creation.
new_client_counted(client_id, booking) ==
    [id |-> client_id, name |-> booking.client_name,
     email |-> booking.client_email, phone |-> booking.client_phone,
     total_visits |-> 1, total_spent |-> 0]

\* The new client record; the fields date_of_birth, address,
\* emergency_contact and medical_notes are empty strings and created_at is
\* the time of the call.
new_client(client_id, booking) ==
    [id |-> client_id, name |-> booking.client_name,
     email |-> booking.client_email, phone |-> booking.client_phone,
     total_visits |-> 0, total_spent |-> 0]

\* find_staff that keeps the last staff member that matches.
find_staff_last(stf, service, staff_id) ==
    IF ~Falsy(staff_id) THEN staff_id
    ELSE LET hits == {i \in 1..Len(stf) :
                          service.category \in stf[i].specialties}
         IN  IF hits = {} THEN None
             ELSE stf[CHOOSE i \in hits : \A j \in hits : i >= j].id

\* The staff member the booking goes to: the one asked for, else the first
\* one in the collection whose specialties hold the service's category,
\* else None.
find_staff(stf, service, staff_id) ==
    IF ~Falsy(staff_id) THEN staff_id
    ELSE LET hits == {i \in 1..Len(stf) :
                          service.category \in stf[i].specialties}
         IN  IF hits = {} THEN None
             ELSE stf[CHOOSE i \in hits : \A j \in hits : i <= j].id

\* The record of a new appointment; created_at is the time of the call.
new_appointment(apt_id, client, service, staff_member, date, time, notes) ==
    [id |-> apt_id,
     client_id |-> client.id, client_name |-> client.name,
     service_id |-> service.id, service_name |-> service.name,
     staff_id |-> staff_member.id, staff_name |-> staff_member.name,
     date |-> date, time |-> time,
     duration_minutes |-> service.duration_minutes,
     price |-> service.price,
     status |-> "scheduled", notes |-> notes, updated_at |-> None]

\* next_id that counts from the size of the collection.
next_id_from_size(prefix, collection) == prefix \o Fmt04d(Len(collection))

\* The id of the next record of a collection.
next_id(prefix, collection) == prefix \o Fmt04d(Len(collection) + 1)

BookingResponse == [NoResponse EXCEPT !.op = "book_appointment"]

\* count_visit without the price.
count_visit_only(client, service) ==
    [client EXCEPT !.total_visits = @ + 1]

\* The update of the client's statistics after the appointment is saved.
count_visit(client, service) ==
    [client EXCEPT !.total_visits = @ + 1,
                   !.total_spent = @ + service.price]

\* with_client that adds a record whether or not a client has the phone.
with_client_always(cls, booking) ==
    Put(cls, next_id("CL", cls), new_client(next_id("CL", cls), booking))

\* The clients as the handler saves them right after the lookup by phone:
\* with a new record when no client has the phone.
with_client(cls, booking) ==
    IF Falsy(find_client(cls, booking.client_phone))
    THEN Put(cls, next_id("CL", cls),
             new_client(next_id("CL", cls), booking))
    ELSE cls

\* The handler from the service lookup on, svc_at being what find_service
\* found: the clients and appointments files as the handler leaves them,
\* and its response.
book_after_lookup(svc_at, booking, cls, svcs, stf, apts) ==
        IF svc_at = 0
        THEN [clients |-> cls, appointments |-> apts,
              response |-> [BookingResponse EXCEPT
                                !.success = "False",
                                !.message = "Service not found"]]
        ELSE
        LET service == svcs[svc_at]
            found == find_client(cls, booking.client_phone)
            client_id == IF Falsy(found) THEN next_id("CL", cls) ELSE found
            \* saved at once when the client is new
            clients_1 == with_client(cls, booking)
            staff_id == find_staff(stf, service, booking.staff_id)
        IN  IF Falsy(staff_id) \/ staff_id \notin Keys(stf)
            THEN [clients |-> clients_1, appointments |-> apts,
                  response |-> [BookingResponse EXCEPT
                                    !.success = "False",
                                    !.message =
                                        "No staff available for this service"]]
            ELSE
            LET apt_id == next_id("APT", apts)
                client == Get(clients_1, client_id)
                appointment ==
                    new_appointment(apt_id, client, service,
                                    Get(stf, staff_id), booking.date,
                                    booking.time, "Booked via voice AI")
                clients_2 ==
                    Put(clients_1, client_id, count_visit(client, service))
            IN  [clients |-> clients_2,
                 appointments |-> Put(apts, apt_id, appointment),
                 response |-> [BookingResponse EXCEPT
                                   !.success = "True",
                                   !.appointment_id = apt_id,
                                   !.message =
                                       "Appointment booked successfully"]]

\* The whole handler on the collections it loaded.
book_appointment_result(booking, cls, svcs, stf, apts) ==
    book_after_lookup(find_service(svcs, booking.service_name), booking,
                      cls, svcs, stf, apts)

\* Request texts for the service: one that occurs in four names (Dermal
\* Fillers is the first), one in capitals, one that occurs in no name.
ServiceNames ==
    { <<"a", "l">>,
      <<"H", "Y", "D", "R", "A", "F", "A", "C", "I", "A", "L">>,
      <<"m", "a", "s", "s", "a", "g", "e">> }

\* Bookings are asked for at ten; the tool create_appointment below asks
\* for half past ten.
BookTimes == { <<"1", "0", ":", "0", "0">> }

\* A Tuesday.
BookDates == { <<"2", "0", "2", "4", "-", "0", "1", "-", "0", "9">> }

Phones == {"305-555-0101", "305-555-0102"}

\* No staff asked for, and an id that is in no roster.
BookStaffIds == {None, "STF009"}

BookingRequests ==
    [service_name : ServiceNames, date : BookDates, time : BookTimes,
     client_name : {"Ana Diaz"}, client_phone : Phones,
     client_email : {""}, staff_id : BookStaffIds]

\* What find_service finds for each request text, the service collection
\* being the seed in every state.
found_service == [n \in ServiceNames |-> find_service(services, n)]

\* What the handler does with a request in the current state.
BookResult(booking) ==
    book_after_lookup(found_service[booking.service_name], booking, clients,
                      services, staff, appointments)

book_appointment ==
    \E booking \in BookingRequests :
        LET r == BookResult(booking)
        IN  /\ Len(r.appointments) <= MaxAppointments
            /\ clients' = r.clients
            /\ appointments' = r.appointments
            /\ response' = r.response
            /\ UNCHANGED <<staff, inflight>>

\* ------------------------------------------------------------------------
\* The agent tools (server.py)
\* ------------------------------------------------------------------------

ToolResponse(op, message) ==
    [NoResponse EXCEPT !.op = op, !.message = message]

\* create_appointment on the collections it loaded.
create_appointment_result(client_id, service_id, staff_id, date, time, notes, cls, svcs, stf, apts) ==
    IF client_id \notin Keys(cls)
    THEN [appointments |-> apts,
          response |-> ToolResponse("create_appointment",
                                    "Error: Client not found")]
    ELSE IF service_id \notin Keys(svcs)
    THEN [appointments |-> apts,
          response |-> ToolResponse("create_appointment",
                                    "Error: Service not found")]
    ELSE IF staff_id \notin Keys(stf)
    THEN [appointments |-> apts,
          response |-> ToolResponse("create_appointment",
                                    "Error: Staff member not found")]
    ELSE LET apt_id == next_id("APT", apts)
             appointment ==
                 new_appointment(apt_id, Get(cls, client_id),
                                 Get(svcs, service_id), Get(stf, staff_id),
                                 date, time, notes)
         IN  [appointments |-> Put(apts, apt_id, appointment),
              response |->
                  [ToolResponse("create_appointment",
                                "Appointment created successfully")
                       EXCEPT !.appointment_id = apt_id]]

\* The tool is called for the first client, for the half-hour Botox
\* treatment at 10:30 on the Tuesday, with the aesthetician or with an id
\* that is in no roster.
create_appointment ==
    \E client_id \in {"CL0001"}, service_id \in {"SVC001"},
       staff_id \in {"STF002", "STF009"},
       date \in BookDates, time \in {<<"1", "0", ":", "3", "0">>} :
        LET r == create_appointment_result(client_id, service_id, staff_id,
                                           date, time, "", clients, services,
                                           staff, appointments)
        IN  /\ Len(r.appointments) <= MaxAppointments
            /\ appointments' = r.appointments
            /\ response' = r.response
            /\ UNCHANGED <<staff, clients, inflight>>

valid_statuses == {"scheduled", "completed", "cancelled", "no-show"}

\* update_appointment_status that leaves an appointment that is no longer
\* scheduled as it is.
update_appointment_status_terminal(op, appointment_id, status, notes, apts) ==
    IF appointment_id \notin Keys(apts)
    THEN [appointments |-> apts,
          response |-> ToolResponse(op, "Error: Appointment not found")]
    ELSE IF status \notin valid_statuses
    THEN [appointments |-> apts,
          response |-> ToolResponse(op, "Error: Invalid status")]
    ELSE IF Get(apts, appointment_id).status # "scheduled"
    THEN [appointments |-> apts,
          response |-> ToolResponse(op, "Error: Invalid status")]
    ELSE LET apt == Get(apts, appointment_id)
         IN  [appointments |->
                  Put(apts, appointment_id,
                      [apt EXCEPT !.status = status,
                                  !.notes = IF Falsy(notes) THEN @ ELSE notes,
                                  !.updated_at = "now"]),
              response |->
                  [ToolResponse(op, "Appointment status updated")
                       EXCEPT !.appointment_id = appointment_id]]

\* update_appointment_status without the test of the status.
update_appointment_status_unvalidated(op, appointment_id, status, notes, apts) ==
    IF appointment_id \notin Keys(apts)
    THEN [appointments |-> apts,
          response |-> ToolResponse(op, "Error: Appointment not found")]
    ELSE LET apt == Get(apts, appointment_id)
         IN  [appointments |->
                  Put(apts, appointment_id,
                      [apt EXCEPT !.status = status,
                                  !.notes = IF Falsy(notes) THEN @ ELSE notes,
                                  !.updated_at = "now"]),
              response |->
                  [ToolResponse(op, "Appointment status updated")
                       EXCEPT !.appointment_id = appointment_id]]

\* update_appointment_status on the appointments it loaded.
update_appointment_status_result(op, appointment_id, status, notes, apts) ==
    IF appointment_id \notin Keys(apts)
    THEN [appointments |-> apts,
          response |-> ToolResponse(op, "Error: Appointment not found")]
    ELSE IF status \notin valid_statuses
    THEN [appointments |-> apts,
          response |-> ToolResponse(op, "Error: Invalid status")]
    ELSE LET apt == Get(apts, appointment_id)
         IN  [appointments |->
                  Put(apts, appointment_id,
                      [apt EXCEPT !.status = status,
                                  !.notes = IF Falsy(notes) THEN @ ELSE notes,
                                  !.updated_at = "now"]),
              response |->
                  [ToolResponse(op, "Appointment status updated")
                       EXCEPT !.appointment_id = appointment_id]]

\* The appointment ids that callers name: the first two that are issued; a
\* call that names one before it is issued names an unknown appointment.
AppointmentIds == {"APT0001", "APT0002"}

\* A valid status and a status that is not valid; the cancellations below
\* set a second valid status.
StatusInputs == {"scheduled", "pending"}

update_appointment_status ==
    \E appointment_id \in AppointmentIds, status \in StatusInputs :
        LET r == update_appointment_status_result(
                     "update_appointment_status", appointment_id, status, "",
                     appointments)
        IN  /\ appointments' = r.appointments
            /\ response' = r.response
            /\ UNCHANGED <<staff, clients, inflight>>

\* The tool cancel_appointment, called without a reason.
tool_cancel_appointment ==
    \E appointment_id \in AppointmentIds, reason \in {""} :
        LET r == update_appointment_status_result(
                     "tool_cancel_appointment", appointment_id, "cancelled",
                     IF Falsy(reason) THEN "Cancelled"
                     ELSE "Cancellation reason: " \o reason,
                     appointments)
        IN  /\ appointments' = r.appointments
            /\ response' = r.response
            /\ UNCHANGED <<staff, clients, inflight>>

\* The tool check_availability: the text it returns, by its first line.
tool_check_availability_result(date, staff_id, stf, apts) ==
    LET date_obj == strptime_Ymd(date)
        op == "tool_check_availability"
    IN  IF ~date_obj.ok
        THEN ToolResponse(op, "Error: Invalid date format. Use YYYY-MM-DD")
        ELSE
        LET day_name == strftime_A(date_obj)
            on_day == available_staff_on(stf, day_name)
            available_staff ==
                IF Falsy(staff_id) THEN on_day
                ELSE SelectSeq(on_day, LAMBDA s : s.id = staff_id)
            listed ==
                {i \in 1..Len(apts) :
                     /\ apts[i].staff_id \in Keys(available_staff)
                     /\ apts[i].date = date
                     /\ apts[i].status = "scheduled"}
        IN  IF ~Falsy(staff_id) /\ staff_id \notin Keys(on_day)
            THEN ToolResponse(op, "Error: Staff member is not available")
            ELSE IF available_staff = <<>>
            THEN ToolResponse(op, "No staff members available")
            ELSE IF \E i \in listed : strptime_HM(apts[i].time) = ValueError
            THEN [ToolResponse(op, "") EXCEPT !.raised = "ValueError"]
            ELSE [ToolResponse(op, "AVAILABILITY FOR")
                      EXCEPT !.date = date, !.day_of_week = day_name]

\* A Tuesday and a day that does not exist.
ToolQueryDates ==
    { <<"2", "0", "2", "4", "-", "0", "1", "-", "0", "9">>,
      <<"2", "0", "2", "4", "-", "0", "2", "-", "3", "0">> }

tool_check_availability ==
    \E date \in ToolQueryDates, staff_id \in {None, "STF003"} :
        /\ response' = tool_check_availability_result(date, staff_id, staff,
                                                      appointments)
        /\ UNCHANGED <<staff, clients, appointments, inflight>>

\* ------------------------------------------------------------------------
\* GET /appointment/{id} and POST /appointment/{id}/cancel (api_server.py)
\* ------------------------------------------------------------------------

NotFound404(op) ==
    [NoResponse EXCEPT !.op = op, !.raised = "HTTPException 404",
                       !.message = "Appointment not found"]

\* get_appointment on the appointments it loaded; the record it returns is
\* named by its id.
get_appointment_result(appointment_id, apts) ==
    IF appointment_id \notin Keys(apts)
    THEN NotFound404("get_appointment")
    ELSE [NoResponse EXCEPT !.op = "get_appointment",
                            !.appointment_id = appointment_id]

get_appointment ==
    \E appointment_id \in {"APT0001"} :
        /\ response' = get_appointment_result(appointment_id, appointments)
        /\ UNCHANGED <<staff, clients, appointments, inflight>>

\* cancel_appointment that reads the record without the test for its id.
cancel_appointment_unchecked(appointment_id, reason, apts) ==
    IF appointment_id \notin Keys(apts)
    THEN [appointments |-> apts,
          response |-> [NoResponse EXCEPT !.op = "cancel_appointment",
                                          !.raised = "KeyError"]]
    ELSE LET apt == Get(apts, appointment_id)
         IN  [appointments |->
                  Put(apts, appointment_id,
                      [apt EXCEPT !.status = "cancelled",
                                  !.notes = reason,
                                  !.updated_at = "now"]),
              response |->
                  [NoResponse EXCEPT !.op = "cancel_appointment",
                                     !.success = "True",
                                     !.appointment_id = appointment_id,
                                     !.message = "Appointment cancelled"]]

\* cancel_appointment that drops the record instead of marking it.
cancel_appointment_removing(appointment_id, reason, apts) ==
    IF appointment_id \notin Keys(apts)
    THEN [appointments |-> apts,
          response |-> NotFound404("cancel_appointment")]
    ELSE [appointments |->
              SelectSeq(apts, LAMBDA a : a.id # appointment_id),
          response |->
              [NoResponse EXCEPT !.op = "cancel_appointment",
                                 !.success = "True",
                                 !.appointment_id = appointment_id,
                                 !.message = "Appointment cancelled"]]

\* cancel_appointment of api_server.py on the appointments it loaded.
cancel_appointment_result(appointment_id, reason, apts) ==
    IF appointment_id \notin Keys(apts)
    THEN [appointments |-> apts,
          response |-> NotFound404("cancel_appointment")]
    ELSE LET apt == Get(apts, appointment_id)
         IN  [appointments |->
                  Put(apts, appointment_id,
                      [apt EXCEPT !.status = "cancelled",
                                  !.notes = reason,
                                  !.updated_at = "now"]),
              response |->
                  [NoResponse EXCEPT !.op = "cancel_appointment",
                                     !.success = "True",
                                     !.appointment_id = appointment_id,
                                     !.message = "Appointment cancelled"]]

\* The reason given with a cancellation.
CancelReasons == {"Cancelled"}

cancel_appointment ==
    \E appointment_id \in AppointmentIds, reason \in CancelReasons :
        LET r == cancel_appointment_result(appointment_id, reason,
                                           appointments)
        IN  /\ appointments' = r.appointments
            /\ response' = r.response
            /\ UNCHANGED <<staff, clients, inflight>>

\* ------------------------------------------------------------------------
\* The program: calls arrive one at a time, each runs to its end
\* ------------------------------------------------------------------------

Next ==
    \/ check_availability
    \/ book_appointment
    \/ create_appointment
    \/ update_appointment_status
    \/ tool_cancel_appointment
    \/ tool_check_availability
    \/ get_appointment
    \/ cancel_appointment

Spec == Init /\ [][Next]_vars

\* The runs of bookings over HTTP, status changes and cancellations only.
BookingNext ==
    \/ book_appointment
    \/ update_appointment_status
    \/ tool_cancel_appointment
    \/ cancel_appointment

BookingSpec == Init /\ [][BookingNext]_vars

\* The slots of the answer to GET /availability for the date, none when
\* the handler raises.
offered_slots(date, stf, apts) ==
    LET offered == check_availability_result(date, stf, apts)
    IN  IF offered.raised # "" THEN {}
        ELSE {offered.available_slots[i] :
                  i \in 1..Len(offered.available_slots)}

\* A caller who asks GET /availability for the date and then books, with
\* POST /book, one of the slots of the answer: the time of the slot, and a
\* request that gives the appointment to the staff member of the slot. No
\* other call comes in between.
guided_book_appointment ==
    \E date \in BookDates :
    \E slot \in offered_slots(date, staff, appointments) :
    \E service_name \in ServiceNames, client_phone \in Phones :
    \E staff_id \in {None, slot.staff_id} :
        LET booking == [service_name |-> service_name,
                        date |-> date, time |-> slot.time,
                        client_name |-> "Ana Diaz",
                        client_phone |-> client_phone,
                        client_email |-> "",
                        staff_id |-> staff_id]
            r == book_after_lookup(found_service[service_name], booking,
                                   clients, services, staff, appointments)
        IN  /\ r.response.success = "True"
            /\ r.appointments[Len(r.appointments)].staff_id = slot.staff_id
            /\ Len(r.appointments) <= MaxAppointments
            /\ clients' = r.clients
            /\ appointments' = r.appointments
            /\ response' = r.response
            /\ UNCHANGED <<staff, inflight>>

\* The runs in which every appointment is booked at a slot that the
\* availability handler has just returned.
GuidedNext ==
    \/ check_availability
    \/ guided_book_appointment

GuidedSpec == Init /\ [][GuidedNext]_vars

\* ------------------------------------------------------------------------
\* Requests handled at the same time: every load_data and every save_data
\* is one step, and the steps of two worker threads interleave
\* ------------------------------------------------------------------------

\* The requests that the threads take between them.
MaxRequests == 3

\* The requests taken so far.
Served == inflight[1].served + inflight[2].served

\* The result of book_appointment on the dicts the thread loaded.
LocalBookResult(p) ==
    book_after_lookup(found_service[inflight[p].booking.service_name],
                      inflight[p].booking, inflight[p].clients, services,
                      staff, inflight[p].appointments)

\* The handler is past the client lookup: it goes on to save the
\* appointment, or returns for want of a staff member.
AfterClient(p, local) ==
    LET r == book_after_lookup(found_service[local.booking.service_name],
                               local.booking, local.clients, services, staff,
                               local.appointments)
    IN  IF r.response.success = "True"
        THEN [local EXCEPT !.pc = "save_appointment"]
        ELSE [local EXCEPT !.pc = "done", !.response = r.response]

\* clients = load_data(CLIENTS_FILE)
book_load_clients(p) ==
    /\ inflight[p].pc \in {"idle", "done"}
    /\ Served < MaxRequests
    /\ \E booking \in BookingRequests :
           inflight' = [inflight EXCEPT ![p] =
                           [Idle EXCEPT !.pc = "load_appointments",
                                        !.op = "book_appointment",
                                        !.booking = booking,
                                        !.clients = clients,
                                        !.served = inflight[p].served + 1]]
    /\ UNCHANGED <<staff, clients, appointments, response>>

\* appointments = load_data(APPOINTMENTS_FILE), then the lookups of the
\* service and of the client, up to the next access to a file.
book_load_appointments(p) ==
    /\ inflight[p].pc = "load_appointments"
    /\ LET local == [inflight[p] EXCEPT !.appointments = appointments]
           svc_at == found_service[local.booking.service_name]
       IN  inflight' = [inflight EXCEPT ![p] =
               IF svc_at = 0
               THEN [local EXCEPT
                        !.pc = "done",
                        !.response = [BookingResponse EXCEPT
                                          !.success = "False",
                                          !.message = "Service not found"]]
               ELSE IF Falsy(find_client(local.clients,
                                         local.booking.client_phone))
               THEN [local EXCEPT !.pc = "save_new_client"]
               ELSE AfterClient(p, local)]
    /\ UNCHANGED <<staff, clients, appointments, response>>

\* save_data(CLIENTS_FILE, clients) with the new client, then the choice
\* of the staff member.
book_save_new_client(p) ==
    /\ inflight[p].pc = "save_new_client"
    /\ clients' = with_client(inflight[p].clients, inflight[p].booking)
    /\ inflight' = [inflight EXCEPT ![p] = AfterClient(p, inflight[p])]
    /\ UNCHANGED <<staff, appointments, response>>

\* save_data(APPOINTMENTS_FILE, appointments) with the new appointment.
book_save_appointment(p) ==
    /\ inflight[p].pc = "save_appointment"
    /\ appointments' = LocalBookResult(p).appointments
    /\ inflight' = [inflight EXCEPT ![p].pc = "save_clients"]
    /\ UNCHANGED <<staff, clients, response>>

\* save_data(CLIENTS_FILE, clients) with the client's statistics, and the
\* return of the BookingResponse.
book_save_clients(p) ==
    /\ inflight[p].pc = "save_clients"
    /\ clients' = LocalBookResult(p).clients
    /\ inflight' = [inflight EXCEPT
                        ![p].pc = "done",
                        ![p].response = LocalBookResult(p).response]
    /\ UNCHANGED <<staff, appointments, response>>

\* cancel_appointment of api_server.py: appointments =
\* load_data(APPOINTMENTS_FILE) and the test for the id.
cancel_load_appointments(p) ==
    /\ inflight[p].pc \in {"idle", "done"}
    /\ Served < MaxRequests
    /\ \E appointment_id \in {"APT0001"} :
           LET r == cancel_appointment_result(appointment_id, "Cancelled",
                                              appointments)
           IN  inflight' = [inflight EXCEPT ![p] =
                   [Idle EXCEPT
                       !.pc = IF r.response.raised = ""
                              THEN "save_cancelled" ELSE "done",
                       !.op = "cancel_appointment",
                       !.appointment_id = appointment_id,
                       !.appointments = appointments,
                       !.response = IF r.response.raised = ""
                                    THEN NoResponse ELSE r.response,
                       !.served = inflight[p].served + 1]]
    /\ UNCHANGED <<staff, clients, appointments, response>>

\* cancel_appointment of api_server.py: save_data(APPOINTMENTS_FILE,
\* appointments) and the return.
cancel_save_appointments(p) ==
    /\ inflight[p].pc = "save_cancelled"
    /\ LET r == cancel_appointment_result(inflight[p].appointment_id,
                                          "Cancelled",
                                          inflight[p].appointments)
       IN  /\ appointments' = r.appointments
           /\ inflight' = [inflight EXCEPT ![p].pc = "done",
                                           ![p].response = r.response]
    /\ UNCHANGED <<staff, clients, response>>

ConcurrentNext ==
    \E p \in Procs :
        \/ book_load_clients(p)
        \/ book_load_appointments(p)
        \/ book_save_new_client(p)
        \/ book_save_appointment(p)
        \/ book_save_clients(p)
        \/ cancel_load_appointments(p)
        \/ cancel_save_appointments(p)

ConcurrentSpec == Init /\ [][ConcurrentNext]_vars

\* ------------------------------------------------------------------------
\* Properties
\* ------------------------------------------------------------------------

\* The start of an appointment or of a slot, in minutes of the day.
StartOf(x) == strptime_HM(x.time)

\* Two dates given as text name the same day of the calendar.
SameDay(d1, d2) ==
    /\ strptime_Ymd(d1).ok
    /\ strptime_Ymd(d2).ok
    /\ strptime_Ymd(d1) = strptime_Ymd(d2)

\* The spans [time, time + duration_minutes) of two appointments overlap.
Overlap(a, b) ==
    /\ StartOf(a) < StartOf(b) + b.duration_minutes
    /\ StartOf(b) < StartOf(a) + a.duration_minutes

\* The last call was an availability query that returned a result.
AvailabilityReturned ==
    response.op = "check_availability" /\ response.raised = ""

\* C1: in every reachable state, no two appointments of the same staff
\* member and date that both have status scheduled overlap in
\* [time, time + duration_minutes).
C1_NoDoubleBooking ==
    \A i, j \in 1..Len(appointments) :
        ( /\ i < j
          /\ appointments[i].staff_id = appointments[j].staff_id
          /\ appointments[i].date = appointments[j].date
          /\ appointments[i].status = "scheduled"
          /\ appointments[j].status = "scheduled" )
        => ~Overlap(appointments[i], appointments[j])

\* A slot starts inside the member's working hours, on a day the member
\* works.
SlotWithinHours(slot, date) ==
    LET member == Get(staff, slot.staff_id)
    IN  /\ strptime_HM(member.hours.start) <= StartOf(slot)
        /\ StartOf(slot) < strptime_HM(member.hours.end)
        /\ strftime_A(strptime_Ymd(date)) \in member.available_days

\* C2: every slot of an availability result, and every slot of the list
\* before it is cut to the first ten, starts at a time t with
\* hours.start <= t < hours.end of its staff member, and the weekday of the
\* date asked about is one of that member's available_days.
C2_SlotsWithinWorkingHours ==
    AvailabilityReturned =>
        LET full == available_slots(response.date, staff, appointments).slots
        IN  /\ \A i \in 1..Len(response.available_slots) :
                   SlotWithinHours(response.available_slots[i], response.date)
            /\ \A i \in 1..Len(full) :
                   SlotWithinHours(full[i], response.date)

\* An availability result with slots of a member who has an appointment.
C2_Witness ==
    /\ AvailabilityReturned
    /\ \E i \in 1..Len(response.available_slots) :
       \E j \in 1..Len(appointments) :
           appointments[j].staff_id = response.available_slots[i].staff_id

\* C3: no slot of an availability result starts inside
\* [time, time + duration_minutes) of a scheduled appointment that its
\* staff member has on the day asked about.
C3_NoSlotInsideAppointment ==
    AvailabilityReturned =>
        \A i \in 1..Len(response.available_slots) :
        \A j \in 1..Len(appointments) :
            LET slot == response.available_slots[i]
                apt == appointments[j]
            IN  ( /\ apt.staff_id = slot.staff_id
                  /\ apt.status = "scheduled"
                  /\ SameDay(apt.date, response.date) )
                => ~( /\ StartOf(apt) <= StartOf(slot)
                      /\ StartOf(slot) < StartOf(apt) + apt.duration_minutes )

\* The last record of a collection: the one a call has just added.
Last(collection) == collection[Len(collection)]

\* The positions of the clients that have the phone.
ClientsWithPhone(cls, phone) == {i \in 1..Len(cls) : cls[i].phone = phone}

\* The positions of the services whose name holds the request text, the
\* case of the letters aside.
Matches(service_name) ==
    {i \in 1..Len(services) :
         In(lower(service_name), lower(services[i].name))}

\* The request texts that occur in the name of some service, and for each
\* of them the first service in the order of the collection that holds it.
KnownNames == {n \in ServiceNames : Matches(n) # {}}

FirstMatch ==
    [n \in KnownNames |->
         services[CHOOSE i \in Matches(n) : \A j \in Matches(n) : i <= j]]

\* The positions of the staff whose specialties hold the category.
StaffFor(category) ==
    {i \in 1..Len(staff) : category \in staff[i].specialties}

\* A request whose service is known names a staff member of the roster,
\* or names none while some staff member has the service's category.
StaffResolves(b) ==
    IF b.staff_id = None \/ b.staff_id = ""
    THEN StaffFor(FirstMatch[b.service_name].category) # {}
    ELSE \E i \in 1..Len(staff) : staff[i].id = b.staff_id

\* The call failed in the way the voice agent is told: success is false,
\* there is a message and no appointment id, and nothing was raised.
StructuredFailure(resp) ==
    /\ resp.raised = ""
    /\ resp.success = "False"
    /\ resp.message # ""
    /\ resp.appointment_id = None

\* C4 as stated: every book call with a phone that no client has adds
\* exactly one client; every book call with a phone that a client has adds
\* no client, puts that client's id on the new appointment and raises the
\* client's total_visits by 1 and total_spent by the price of the service.
C4_EveryBookCallCounts ==
    \A b \in BookingRequests :
        LET r == BookResult(b)
            before == ClientsWithPhone(clients, b.client_phone)
        IN  /\ before = {} => Len(r.clients) = Len(clients) + 1
            /\ before # {} =>
                 \A i \in before :
                     /\ Len(r.clients) = Len(clients)
                     /\ Len(r.appointments) = Len(appointments) + 1
                     /\ Last(r.appointments).client_id = clients[i].id
                     /\ r.clients[i].total_visits
                            = clients[i].total_visits + 1
                     /\ b.service_name \in KnownNames =>
                            r.clients[i].total_spent
                                = clients[i].total_spent
                                  + FirstMatch[b.service_name].price

\* C4: a book call with a phone that no client has adds exactly one client
\* when its service name is known, and none when it is not; a book call
\* with a phone that a client has adds no client; when it succeeds it puts
\* that client's id on the new appointment and raises that client's
\* total_visits by 1 and total_spent by the price of the service, and when
\* it fails it leaves the clients as they were.
C4_BookAddsClientOnce ==
    \A b \in BookingRequests :
        LET r == BookResult(b)
            before == ClientsWithPhone(clients, b.client_phone)
        IN  /\ (before = {} /\ b.service_name \in KnownNames) =>
                 /\ Len(r.clients) = Len(clients) + 1
                 /\ SubSeq(r.clients, 1, Len(clients)) = clients
                 /\ Cardinality(ClientsWithPhone(r.clients, b.client_phone))
                        = 1
            /\ (before = {} /\ b.service_name \notin KnownNames) =>
                 r.clients = clients
            /\ before # {} =>
                 /\ Cardinality(before) = 1
                 /\ \A i \in before :
                      IF r.response.success = "True"
                      THEN /\ Len(r.appointments) = Len(appointments) + 1
                           /\ Last(r.appointments).client_id = clients[i].id
                           /\ r.clients =
                                [clients EXCEPT
                                   ![i].total_visits = @ + 1,
                                   ![i].total_spent =
                                       @ + FirstMatch[b.service_name].price]
                      ELSE r.clients = clients

\* Two bookings with one phone: one client, two visits, both appointments
\* under that client's id.
C4_Witness ==
    /\ response.op = "book_appointment"
    /\ response.success = "True"
    /\ Len(clients) = 1
    /\ clients[1].total_visits = 2
    /\ Len(appointments) = 2
    /\ \A j \in 1..2 : appointments[j].client_id = clients[1].id

\* C5: update_appointment_status with the id of an appointment that exists
\* and a status outside scheduled, completed, cancelled and no-show returns
\* an error and leaves the appointments as they were.
C5_InvalidStatusRejected ==
    \A j \in 1..Len(appointments) :
    \A status \in StatusInputs :
    \A notes \in {"", "Client called"} :
        status \notin {"scheduled", "completed", "cancelled", "no-show"} =>
            LET r == update_appointment_status_result(
                         "update_appointment_status", appointments[j].id,
                         status, notes, appointments)
            IN  /\ r.response.message = "Error: Invalid status"
                /\ r.response.raised = ""
                /\ r.appointments = appointments

\* The tool has just refused a status for an appointment that exists.
C5_Witness ==
    /\ response.op = "update_appointment_status"
    /\ response.message = "Error: Invalid status"
    /\ appointments # <<>>

\* C6: a book call whose service name occurs in the name of no service,
\* the case of the letters aside, returns success false and no appointment
\* id and adds no appointment.
C6_UnknownServiceFails ==
    \A b \in BookingRequests :
        b.service_name \notin KnownNames =>
            LET r == BookResult(b)
            IN  /\ r.response.success = "False"
                /\ r.response.appointment_id = None
                /\ r.appointments = appointments

\* A book call has just failed for its service name, after one that
\* succeeded.
C6_Witness ==
    /\ response.op = "book_appointment"
    /\ response.message = "Service not found"
    /\ appointments # <<>>

\* C7 as stated: every book call whose service name occurs in the name of
\* some service succeeds and adds an appointment with the id of the first
\* such service in the order of the collection.
C7_KnownServiceAlwaysBooks ==
    \A b \in BookingRequests :
        b.service_name \in KnownNames =>
            LET r == BookResult(b)
            IN  /\ r.response.success = "True"
                /\ Len(r.appointments) = Len(appointments) + 1
                /\ Last(r.appointments).service_id
                       = FirstMatch[b.service_name].id

\* C7: a book call whose service name occurs in the name of some service,
\* the case of the letters aside, succeeds exactly when a staff member is
\* found for it, and then adds one appointment with the id of the first
\* such service in the order of the collection.
C7_FirstMatchingService ==
    \A b \in BookingRequests :
        b.service_name \in KnownNames =>
            LET r == BookResult(b)
            IN  /\ r.response.success = "True" <=> StaffResolves(b)
                /\ r.response.success = "True" =>
                     /\ Len(r.appointments) = Len(appointments) + 1
                     /\ Last(r.appointments).service_id
                            = FirstMatch[b.service_name].id
                     /\ Last(r.appointments).service_name
                            = FirstMatch[b.service_name].name

\* A booking of Dermal Fillers, the first of the four services whose name
\* holds the text "al".
C7_Witness ==
    /\ response.op = "book_appointment"
    /\ response.success = "True"
    /\ Last(appointments).id = response.appointment_id
    /\ Last(appointments).service_id = "SVC002"

\* C8: a book call whose service is known and that names no staff member
\* gives the appointment to the first staff member in the order of the
\* collection whose specialties hold the service's category, with the
\* service's duration and price; with the seed roster a Hydrafacial goes to
\* STF002 with 60 minutes and 250; the call fails with the no-staff message
\* and adds no appointment when no staff member has the category or when
\* the staff member it names is not in the roster.
C8_StaffAssignment ==
    \A b \in BookingRequests :
        b.service_name \in KnownNames =>
            LET r == BookResult(b)
                service == FirstMatch[b.service_name]
                able == StaffFor(service.category)
                unnamed == b.staff_id = None \/ b.staff_id = ""
            IN  /\ (unnamed /\ able # {}) =>
                     /\ r.response.success = "True"
                     /\ Len(r.appointments) = Len(appointments) + 1
                     /\ \E i \in able :
                          /\ \A k \in able : i <= k
                          /\ Last(r.appointments).staff_id = staff[i].id
                     /\ Last(r.appointments).duration_minutes
                            = service.duration_minutes
                     /\ Last(r.appointments).price = service.price
                /\ ( /\ unnamed
                     /\ staff = default_staff
                     /\ service.id = "SVC003" ) =>
                     /\ Last(r.appointments).staff_id = "STF002"
                     /\ Last(r.appointments).duration_minutes = 60
                     /\ Last(r.appointments).price = 250
                /\ ( \/ unnamed /\ able = {}
                     \/ /\ ~unnamed
                        /\ \A i \in 1..Len(staff) : staff[i].id # b.staff_id )
                   =>
                     /\ r.response.success = "False"
                     /\ r.response.message
                            = "No staff available for this service"
                     /\ r.response.appointment_id = None
                     /\ r.appointments = appointments

\* With the seed roster, a Hydrafacial went to STF002 and a later call
\* found no staff.
C8_Witness ==
    /\ staff = default_staff
    /\ response.op = "book_appointment"
    /\ response.message = "No staff available for this service"
    /\ \E j \in 1..Len(appointments) :
           /\ appointments[j].service_id = "SVC003"
           /\ appointments[j].staff_id = "STF002"
           /\ appointments[j].duration_minutes = 60
           /\ appointments[j].price = 250

\* The seed roster and exactly one scheduled appointment: STF002 at 10:00
\* for 60 minutes on the date, which is a Tuesday.
OneHourAtTen(date) ==
    /\ staff = default_staff
    /\ strptime_Ymd(date).ok
    /\ strftime_A(strptime_Ymd(date)) = "Tuesday"
    /\ \E j \in 1..Len(appointments) :
           /\ appointments[j].status = "scheduled"
           /\ appointments[j].staff_id = "STF002"
           /\ appointments[j].date = date
           /\ appointments[j].time = <<"1", "0", ":", "0", "0">>
           /\ appointments[j].duration_minutes = 60
           /\ \A k \in 1..Len(appointments) :
                  k # j => appointments[k].status # "scheduled"

\* The starts, in minutes of the day, of the slots of a staff member.
SlotTimes(slots, staff_id) ==
    {StartOf(slots[i]) : i \in {k \in 1..Len(slots) :
                                    slots[k].staff_id = staff_id}}

\* C9 as stated: with the seed roster and one scheduled appointment of
\* STF002 at 10:00 for 60 minutes on a Tuesday, the slots found for that
\* Tuesday leave out STF002 at 10:00, hold STF002 at 10:30, and hold no
\* slot of STF002 before 10:00 or at or after 18:00.
C9_HalfPastTenOffered ==
    (AvailabilityReturned /\ OneHourAtTen(response.date)) =>
        LET full == available_slots(response.date, staff, appointments).slots
            times == SlotTimes(full, "STF002")
        IN  /\ 600 \notin times
            /\ 630 \in times
            /\ \A t \in times : 600 <= t /\ t < 1080

\* C9: with the seed roster and one scheduled appointment of STF002 at
\* 10:00 for 60 minutes on a Tuesday, the slots found for that Tuesday
\* leave out STF002 at 10:00 and at 10:30, which lies inside the
\* appointment; the slots of STF002 are 11:00, 11:30 and so on to 17:30,
\* none before 10:00 and none at or after 18:00; the result returned is
\* the first ten slots found, which are those of STF001 from 09:00 to
\* 13:30.
C9_HalfPastTenBusy ==
    (AvailabilityReturned /\ OneHourAtTen(response.date)) =>
        LET full == available_slots(response.date, staff, appointments).slots
            times == SlotTimes(full, "STF002")
        IN  /\ 600 \notin times
            /\ 630 \notin times
            /\ times = {660 + 30 * k : k \in 0..13}
            /\ \A t \in times : 600 <= t /\ t < 1080
            /\ response.available_slots = SubSeq(full, 1, 10)
            /\ SlotTimes(response.available_slots, "STF002") = {}
            /\ SlotTimes(response.available_slots, "STF001")
                   = {540 + 30 * k : k \in 0..9}

\* Availability was asked for the Tuesday of the one appointment.
C9_Witness ==
    /\ AvailabilityReturned
    /\ OneHourAtTen(response.date)
    /\ Len(appointments) = 1

\* The appointment ids that name no appointment.
UnknownIds == {id \in AppointmentIds :
                   \A j \in 1..Len(appointments) : appointments[j].id # id}

\* The statuses among the inputs that are not valid.
InvalidStatuses ==
    StatusInputs \ {"scheduled", "completed", "cancelled", "no-show"}

\* The staff of the roster who do not work on the day of the date.
StaffOff(date) ==
    {staff[i].id : i \in {k \in 1..Len(staff) :
         strftime_A(strptime_Ymd(date)) \notin staff[k].available_days}}

\* A book request that the handler has to refuse.
Unbookable(b) ==
    b.service_name \notin KnownNames \/ ~StaffResolves(b)

ToolError(resp, message) ==
    /\ resp.raised = ""
    /\ resp.success = None
    /\ resp.message = message

C11_StaffEligibleForService ==
    \A j \in 1..Len(appointments) :
        \E i \in 1..Len(services) : \E k \in 1..Len(staff) :
            /\ services[i].id = appointments[j].service_id
            /\ staff[k].id = appointments[j].staff_id
            /\ services[i].category \in staff[k].specialties

\* C13 as stated: an appointment whose status is completed, cancelled or
\* no-show keeps that status in every step.
C13_TerminalStatusKept ==
    [][\A j \in 1..Len(appointments) :
           appointments[j].status \in {"completed", "cancelled", "no-show"}
           => /\ j <= Len(appointments')
              /\ appointments'[j].status = appointments[j].status]_vars

\* C13: every appointment is created with status scheduled and its status
\* is always one of scheduled, completed, cancelled and no-show;
\* update_appointment_status moves an appointment from whatever status it
\* has to any of the four, scheduled among them, and the two cancellations
\* move it to cancelled, so that completed, cancelled and no-show are not
\* terminal.
C13_StatusMovesFreely ==
    /\ \A b \in BookingRequests :
           LET r == BookResult(b)
           IN  r.response.success = "True" =>
                   Last(r.appointments).status = "scheduled"
    /\ \A staff_id \in {"STF002", "STF009"} :
           LET r == create_appointment_result(
                        "CL0001", "SVC001", staff_id,
                        <<"2", "0", "2", "4", "-", "0", "1", "-", "0", "9">>,
                        <<"1", "0", ":", "3", "0">>, "", clients, services,
                        staff, appointments)
           IN  Len(r.appointments) = Len(appointments) + 1 =>
                   Last(r.appointments).status = "scheduled"
    /\ \A j \in 1..Len(appointments) :
           /\ appointments[j].status
                  \in {"scheduled", "completed", "cancelled", "no-show"}
           /\ \A status \in {"scheduled", "completed", "cancelled",
                             "no-show"} :
                  update_appointment_status_result(
                      "update_appointment_status", appointments[j].id,
                      status, "", appointments).appointments[j].status
                  = status
           /\ update_appointment_status_result(
                  "tool_cancel_appointment", appointments[j].id, "cancelled",
                  "Cancelled", appointments).appointments[j].status
              = "cancelled"
           /\ cancel_appointment_result(appointments[j].id, "Cancelled",
                                        appointments).appointments[j].status
              = "cancelled"

\* An appointment that was cancelled is scheduled again.
C13_Witness ==
    /\ response.op = "update_appointment_status"
    /\ response.message = "Appointment status updated"
    /\ \E j \in 1..Len(appointments) :
           /\ appointments[j].id = response.appointment_id
           /\ appointments[j].status = "scheduled"
           /\ appointments[j].notes = "Cancelled"

\* The place of a staff member in the staff collection.
StaffPos(staff_id) == CHOOSE k \in 1..Len(staff) : staff[k].id = staff_id

\* C18: the slots returned over HTTP are the first min(10, n) of the n
\* slots found; the slots found list the staff who work that day in the
\* order of the staff collection and, for one staff member, in ascending
\* time, each a whole number of 30-minute steps after hours.start.
C18_FirstTenInOrder ==
    AvailabilityReturned =>
        LET full == available_slots(response.date, staff, appointments).slots
            n == Len(full)
        IN  /\ Len(response.available_slots) = IF n < 10 THEN n ELSE 10
            /\ \A i \in 1..Len(response.available_slots) :
                   response.available_slots[i] = full[i]
            /\ \A i \in 1..(n - 1) :
                   \/ StaffPos(full[i].staff_id)
                          < StaffPos(full[i + 1].staff_id)
                   \/ /\ full[i].staff_id = full[i + 1].staff_id
                      /\ StartOf(full[i]) < StartOf(full[i + 1])
            /\ \A i \in 1..n :
                   LET member == staff[StaffPos(full[i].staff_id)]
                       first == strptime_HM(member.hours.start)
                   IN  /\ strftime_A(strptime_Ymd(response.date))
                              \in member.available_days
                       /\ first <= StartOf(full[i])
                       /\ (StartOf(full[i]) - first) % 30 = 0
                       /\ full[i].staff_name = member.name

\* A result of fewer than ten slots, of a staff member with an appointment
\* that day.
C18_Witness ==
    /\ AvailabilityReturned
    /\ Len(response.available_slots) \in 1..9
    /\ appointments # <<>>

\* C19: a book call with a phone that no client has, whose service is known
\* and for which no staff member is found, leaves the appointments as they
\* were and the clients as they were but for one new record at the end
\* with that phone, total_visits 0 and total_spent 0.
C19_ClientKeptWhenNoStaff ==
    \A b \in BookingRequests :
        ( /\ b.service_name \in KnownNames
          /\ ~StaffResolves(b)
          /\ ClientsWithPhone(clients, b.client_phone) = {} )
        => LET r == BookResult(b)
           IN  /\ r.response.success = "False"
               /\ r.appointments = appointments
               /\ Len(r.clients) = Len(clients) + 1
               /\ SubSeq(r.clients, 1, Len(clients)) = clients
               /\ Last(r.clients).phone = b.client_phone
               /\ Last(r.clients).total_visits = 0
               /\ Last(r.clients).total_spent = 0

\* A first call found no staff: its client is on file, without a visit,
\* and there is no appointment.
C19_Witness ==
    /\ response.op = "book_appointment"
    /\ response.message = "No staff available for this service"
    /\ appointments = <<>>
    /\ Len(clients) = 1
    /\ clients[1].total_visits = 0
    /\ clients[1].total_spent = 0

\* A scheduled appointment of the staff member on the date, under the same
\* text of the date, covers the minute t.
Covered(t, staff_id, date) ==
    \E k \in 1..Len(appointments) :
        /\ appointments[k].staff_id = staff_id
        /\ appointments[k].date = date
        /\ appointments[k].status = "scheduled"
        /\ StartOf(appointments[k]) <= t
        /\ t < StartOf(appointments[k]) + appointments[k].duration_minutes

\* The slot starts of the staff member of an appointment that lie inside
\* the appointment.
StartsInside(apt) ==
    LET member == staff[StaffPos(apt.staff_id)]
        first == strptime_HM(member.hours.start)
        end == strptime_HM(member.hours.end)
        from == StartOf(apt)
    IN  {t \in from..(from + apt.duration_minutes - 1) :
             /\ first <= t
             /\ t < end
             /\ (t - first) % 30 = 0}

\* C20: for every appointment, whatever its status, of a staff member who
\* works on its date, a slot start of that staff member inside the
\* appointment is among the slots found for the date exactly when no
\* scheduled appointment of that staff member and date covers it: the
\* slots of an appointment that is cancelled, completed or no-show are
\* found again, and are not found once it is scheduled again.
C20_OnlyScheduledBlocks ==
    \A date \in {appointments[j].date : j \in 1..Len(appointments)} :
        strptime_Ymd(date).ok =>
            LET full == available_slots(date, staff, appointments).slots
            IN  \A j \in 1..Len(appointments) :
                    LET apt == appointments[j]
                    IN  ( /\ apt.date = date
                          /\ strftime_A(strptime_Ymd(date))
                                 \in staff[StaffPos(apt.staff_id)]
                                         .available_days )
                        => LET times == SlotTimes(full, apt.staff_id)
                           IN  \A t \in StartsInside(apt) :
                                   t \in times
                                       <=> ~Covered(t, apt.staff_id, date)

\* The only appointment is cancelled and the slot at its start is found
\* again.
C20_Witness ==
    /\ Len(appointments) = 1
    /\ appointments[1].status = "cancelled"
    /\ response.op = "check_availability"
    /\ response.date = appointments[1].date
    /\ StartOf(appointments[1])
           \in SlotTimes(available_slots(response.date, staff,
                                         appointments).slots,
                         appointments[1].staff_id)

\* The appointments under the id of a client, and the sum of their prices.
AppointmentsOf(client_id) ==
    SelectSeq(appointments, LAMBDA a : a.client_id = client_id)

RECURSIVE TotalPrice(_)
TotalPrice(apts) ==
    IF apts = <<>> THEN 0 ELSE Head(apts).price + TotalPrice(Tail(apts))

\* C17: in every state of a run of bookings, status changes and
\* cancellations that starts without clients and appointments, the
\* total_visits of every client is the number of appointments under the
\* client's id, whatever their status, and the total_spent is the sum of
\* their prices; so a status change or a cancellation changes no counter
\* and a booking changes those of its own client only.
C17_CountersMatchBookings ==
    \A i \in 1..Len(clients) :
        /\ clients[i].total_visits = Len(AppointmentsOf(clients[i].id))
        /\ clients[i].total_spent = TotalPrice(AppointmentsOf(clients[i].id))

\* Two clients with one booking each, one of the two cancelled.
C17_Witness ==
    /\ Len(clients) = 2
    /\ Len(appointments) = 2
    /\ appointments[1].client_id # appointments[2].client_id
    /\ appointments[1].status = "cancelled"
    /\ appointments[2].status = "scheduled"
    /\ \A i \in 1..2 : clients[i].total_visits = 1

\* Two appointments of one staff member and one date, both scheduled.
SameStaffAndDate(a, b) ==
    /\ a.staff_id = b.staff_id
    /\ a.date = b.date
    /\ a.status = "scheduled"
    /\ b.status = "scheduled"

\* C16: when every appointment is booked, one call at a time, at a slot
\* that availability has just returned, an appointment never starts inside
\* an earlier scheduled appointment of its staff member and date; two such
\* appointments overlap all the same (the witness), and then the later
\* booking starts before the earlier one and runs into it, its own
\* duration not being tested.
C16_OverlapByOwnDuration ==
    \A i, j \in 1..Len(appointments) :
        (i < j /\ SameStaffAndDate(appointments[i], appointments[j])) =>
            LET early == appointments[i]
                late == appointments[j]
            IN  /\ ~( /\ StartOf(early) <= StartOf(late)
                      /\ StartOf(late)
                             < StartOf(early) + early.duration_minutes )
                /\ Overlap(early, late) =>
                       /\ StartOf(late) < StartOf(early)
                       /\ StartOf(early)
                              < StartOf(late) + late.duration_minutes

\* Two scheduled appointments of one staff member and date that overlap,
\* both booked at a slot that availability returned.
C16_Witness ==
    \E i, j \in 1..Len(appointments) :
        /\ i < j
        /\ SameStaffAndDate(appointments[i], appointments[j])
        /\ Overlap(appointments[i], appointments[j])

\* ------------------------------------------------------------------------
\* Requests handled at the same time
\* ------------------------------------------------------------------------

\* Thread p has returned from book_appointment.
BookDone(p) ==
    inflight[p].op = "book_appointment" /\ inflight[p].pc = "done"

\* Thread p has returned a successful BookingResponse.
BookSucceeded(p) ==
    BookDone(p) /\ inflight[p].response.success = "True"

\* Both threads booked, each from the appointments the other one loaded too.
SameSnapshotBooked ==
    /\ BookSucceeded(1)
    /\ BookSucceeded(2)
    /\ inflight[1].appointments = inflight[2].appointments

\* The records of the appointments file under an id.
RecordsUnder(id) == {i \in 1..Len(appointments) : appointments[i].id = id}

\* C15: when two booking requests have both loaded the same appointments
\* and both have reported success, both report the same id, the one that
\* follows from the size of what they loaded, and the appointments file
\* holds a single record under it and one record more than the snapshot:
\* one of the two bookings is lost.
C15_SameIdOneRecord ==
    SameSnapshotBooked =>
        LET snapshot == inflight[1].appointments
            same_id == "APT" \o Fmt04d(Len(snapshot) + 1)
        IN  /\ inflight[1].response.appointment_id = same_id
            /\ inflight[2].response.appointment_id = same_id
            /\ Cardinality(RecordsUnder(same_id)) = 1
            /\ Len(appointments) = Len(snapshot) + 1

\* Two bookings for different clients and different services loaded the
\* empty appointments, both succeeded, and the file holds one record.
C15_Witness ==
    /\ SameSnapshotBooked
    /\ inflight[1].appointments = <<>>
    /\ inflight[1].booking.client_phone # inflight[2].booking.client_phone
    /\ inflight[1].booking.service_name # inflight[2].booking.service_name
    /\ inflight[1].response.appointment_id = "APT0001"
    /\ inflight[2].response.appointment_id = "APT0001"
    /\ Len(appointments) = 1

\* Both threads have returned from a booking with the same phone number,
\* for a known service, and neither had loaded a client with that number.
SamePhoneRace ==
    /\ BookDone(1)
    /\ BookDone(2)
    /\ inflight[1].booking.client_phone = inflight[2].booking.client_phone
    /\ \A p \in Procs :
           /\ found_service[inflight[p].booking.service_name] # 0
           /\ ClientsWithPhone(inflight[p].clients,
                               inflight[p].booking.client_phone) = {}

\* C14 as stated: after two bookings with the same unseen phone number have
\* raced, the clients file holds two records with that number.
C14_RaceLeavesTwoClients ==
    SamePhoneRace =>
        Cardinality(ClientsWithPhone(clients,
                        inflight[1].booking.client_phone)) = 2

\* C14 amended: in no interleaving of the loads and saves do two records of
\* the clients file carry the same phone number, and after two bookings
\* with the same unseen number have raced the file holds exactly one record
\* with it: both threads gave it the id that follows from the size of what
\* they loaded, and each save writes one thread's whole dict.
C14_OneClientPerPhone ==
    /\ \A i, j \in 1..Len(clients) :
           clients[i].phone = clients[j].phone => i = j
    /\ \A i, j \in 1..Len(clients) :
           clients[i].id = clients[j].id => i = j
    /\ SamePhoneRace =>
           Cardinality(ClientsWithPhone(clients,
                           inflight[1].booking.client_phone)) = 1

\* Two bookings with the same number raced on the empty clients file, both
\* succeeded, and the file holds the one client CL0001.
C14_Witness ==
    /\ SamePhoneRace
    /\ BookSucceeded(1)
    /\ BookSucceeded(2)
    /\ inflight[1].clients = <<>>
    /\ inflight[2].clients = <<>>
    /\ Len(clients) = 1
    /\ clients[1].id = "CL0001"
    /\ clients[1].phone = inflight[1].booking.client_phone

\* The fields of an appointment that no operation assigns after creation.
Immutable(apt) ==
    [id |-> apt.id, client_id |-> apt.client_id,
     client_name |-> apt.client_name, service_id |-> apt.service_id,
     service_name |-> apt.service_name, staff_id |-> apt.staff_id,
     staff_name |-> apt.staff_name, date |-> apt.date, time |-> apt.time,
     duration_minutes |-> apt.duration_minutes, price |-> apt.price]

\* Every record of before is in after under its id, with the same fields
\* but for status, notes and updated_at.
RecordsKept(before, after) ==
    \A i \in 1..Len(before) :
        \E j \in 1..Len(after) :
            /\ after[j].id = before[i].id
            /\ Immutable(after[j]) = Immutable(before[i])

\* The ids of the records of before that are not the same in after.
Altered(before, after) ==
    {before[i].id : i \in {k \in 1..Len(before) :
                               \A j \in 1..Len(after) :
                                   after[j] # before[k]}}

\* Thread p saves the appointments in this step.
SavesAppointments(p) ==
    /\ inflight[p].pc \in {"save_appointment", "save_cancelled"}
    /\ inflight'[p].pc # inflight[p].pc

\* C12 as stated: every step keeps every appointment record under its id,
\* with the same fields but for status, notes and updated_at.
C12_RecordsKeptForever ==
    [][RecordsKept(appointments, appointments')]_vars

\* C12 amended: a save of the appointments by a request that loaded the
\* file as it is now keeps every record under its id with the same fields
\* but for status, notes and updated_at, and alters a record only in a
\* cancellation, and then only the record cancelled; likewise each of
\* create_appointment, update_appointment_status and the two cancel
\* operations, run on the file as it is, keeps every record, and the
\* status operations alter at most the record they are asked for.  A save
\* by a request that loaded the file before another one saved it writes its
\* own copy over the records saved in between.
C12_RecordsKeptBySavesOfCurrentFile ==
    [][/\ \A p \in Procs :
              (SavesAppointments(p)
                  /\ inflight[p].appointments = appointments) =>
                  /\ RecordsKept(appointments, appointments')
                  /\ Altered(appointments, appointments') \subseteq
                         IF inflight[p].op = "cancel_appointment"
                         THEN {inflight[p].appointment_id}
                         ELSE {}
       /\ \A id \in AppointmentIds, status \in valid_statuses :
              LET after == update_appointment_status_result(
                               "update_appointment_status", id, status, "",
                               appointments).appointments
              IN  /\ RecordsKept(appointments, after)
                  /\ Altered(appointments, after) \subseteq {id}
       /\ \A staff_id \in {"STF002", "STF009"}, date \in BookDates :
              LET after == create_appointment_result(
                               "CL0001", "SVC001", staff_id, date,
                               <<"1", "0", ":", "3", "0">>, "", clients,
                               services, staff, appointments).appointments
              IN  /\ RecordsKept(appointments, after)
                  /\ Altered(appointments, after) = {}
       /\ \A id \in AppointmentIds :
              LET after == cancel_appointment_result(
                               id, "Cancelled", appointments).appointments
              IN  /\ RecordsKept(appointments, after)
                  /\ Altered(appointments, after) \subseteq {id}
      ]_vars

\* A cancellation saved the file it had loaded, next to another record.
C12_Witness ==
    /\ \E p \in Procs :
           /\ inflight[p].op = "cancel_appointment"
           /\ inflight[p].pc = "done"
           /\ inflight[p].response.success = "True"
           /\ Len(inflight[p].appointments) = 2
           /\ RecordsKept(inflight[p].appointments, appointments)
    /\ Len(appointments) = 2
    /\ appointments[1].status = "cancelled"
    /\ appointments[2].status = "scheduled"

====
